---- MODULE Spec2Model ----
(***************************************************************************)
(* Model of scraper.py: the two-phase pipeline of the __main__ block       *)
(* (phase 1: one get_remote_directory_count task per link on a pool of     *)
(* MAX_WORKERS threads; phase 2: one mirror_and_verify_link task per link  *)
(* whose count is known, on a second pool; then the summary), with the     *)
(* two worker functions modelled step by step.  The external tool (lftp),  *)
(* the file system and the thread scheduler are the environment: their     *)
(* outcomes are nondeterministic choices.                                  *)
(***************************************************************************)
EXTENDS Integers, Sequences, FiniteSets, TLC

(***************************************************************************)
(* Bounds of the model.                                                    *)
(***************************************************************************)
\* longest list of links returned by get_ftps_links
MaxLinks == 2
\* largest expected count passed to a direct call of mirror_and_verify_link
MaxExpected == 2
MaxPathLen == 5

(***************************************************************************)
(* Program constants.                                                      *)
(***************************************************************************)
MAX_WORKERS == 8
\* the value get_remote_directory_count returns when the listing failed
UNKNOWN == -1

\* the links the page may hold (the href strings of line 45)
Locators == {"ftps://h/a/x", "ftps://h/b/x"}

(***************************************************************************)
(* Text.  A Python str is modelled as a sequence of one-character strings. *)
(***************************************************************************)
Whitespace == {" ", "\n"}

RECURSIVE lstrip(_)
lstrip(s) ==
    IF s # <<>> /\ Head(s) \in Whitespace THEN lstrip(Tail(s)) ELSE s

RECURSIVE rstrip(_)
rstrip(s) ==
    IF s # <<>> /\ s[Len(s)] \in Whitespace
    THEN rstrip(SubSeq(s, 1, Len(s) - 1))
    ELSE s

\* str.strip()
strip(s) == rstrip(lstrip(s))

\* str.split(sep): the pieces between the occurrences of sep; always at
\* least one piece ("".split("\n") is [""])
RECURSIVE split(_, _)
split(s, sep) ==
    IF \A k \in 1..Len(s) : s[k] # sep
    THEN <<s>>
    ELSE LET k == CHOOSE k \in 1..Len(s) :
                      s[k] = sep /\ \A j \in 1..(k - 1) : s[j] # sep
         IN  <<SubSeq(s, 1, k - 1)>> \o split(SubSeq(s, k + 1, Len(s)), sep)

\* line.endswith('/')
endswith(line, c) == line # <<>> /\ line[Len(line)] = c

\* lines 69-73: the number of lines of the stripped listing that are not
\* empty and end with '/'
remote_dir_count(stdout) ==
    LET raw_cls_output == strip(stdout)
        lines == split(raw_cls_output, "\n")
    IN  Cardinality({k \in 1..Len(lines) :
                        lines[k] # <<>> /\ endswith(lines[k], "/")})

\* what the listing command may print: nothing, a file, a directory, both
\* with a final newline, a directory between blank lines
ListingOutputs ==
    {<<>>,
     <<"f">>,
     <<"d", "/">>,
     <<"f", "\n", "d", "/", "\n">>,
     <<"\n", "d", "/", "\n", "\n", "f">>}

\* what the mirror command may write to stderr: nothing, white space, text
\* with white space around it
ToolTexts == {<<>>, <<" ", "\n">>, <<" ", "x", "\n">>}

\* what a mirror command that ends with status zero writes to stdout (it
\* runs with --verbose); nothing reads it but the strip() of line 127
MirrorStdouts == {<<"x", "\n">>}

\* the sub-directories a local target may hold when os.walk lists it
LocalDirs == SUBSET {"sub"}

\* e.stderr of a TimeoutExpired that captured nothing
None == <<"None">>

\* line 153: the text kept when the timeout left no stderr
NoStderrText == <<"No stderr captured before timeout.">>

\* str(e) of the exceptions subprocess.run raises apart from the two above
\* (the tool or the working directory is missing)
ExceptionTexts == {<<"[Errno 2] No such file or directory">>}

(***************************************************************************)
(* The local target directory of a link, lines 88-104.                     *)
(***************************************************************************)
\* the characters of the links of Locators
url_text(ftps_url) ==
    CASE ftps_url = "ftps://h/a/x" ->
            <<"f", "t", "p", "s", ":", "/", "/", "h", "/", "a", "/", "x">>
      [] ftps_url = "ftps://h/b/x" ->
            <<"f", "t", "p", "s", ":", "/", "/", "h", "/", "b", "/", "x">>

\* the first position from `from` on of a character of cs in s, Len(s) + 1
\* when there is none
find(s, cs, from) ==
    LET hits == {k \in from..Len(s) : s[k] \in cs}
    IN  IF hits = {} THEN Len(s) + 1
        ELSE CHOOSE k \in hits : \A j \in hits : k <= j

\* lines 88-90: urlparse(ftps_url).path, what follows the host of
\* "scheme://host" up to a query or a fragment
urlparse_path(text) ==
    LET netloc == find(text, {":"}, 1) + 3
        start == find(text, {"/", "?", "#"}, netloc)
        stop == find(text, {"?", "#"}, start)
    IN  SubSeq(text, start, stop - 1)

\* lines 95 and 101: the two fixed names
FTPS_ROOT == <<"ftps_root">>
UNKNOWN_TARGET_DIR == <<"unknown_target_dir">>

\* (mutant: the "elif" of line 96 goes to the fixed name at once)
local_target_dir_nameNoSegments(remote_path) ==
    LET pieces == split(remote_path, "/")
        last == pieces[Len(pieces)]
    IN  IF last = <<>> /\ remote_path = <<"/">> THEN FTPS_ROOT
        ELSE IF last = <<>> THEN UNKNOWN_TARGET_DIR
        ELSE last

\* lines 93-101: the name of the local target directory
local_target_dir_name(remote_path) ==
    LET pieces == split(remote_path, "/")
        last == pieces[Len(pieces)]
        segments == SelectSeq(pieces, LAMBDA piece : piece # <<>>)
    IN  IF last = <<>> /\ remote_path = <<"/">> THEN FTPS_ROOT
        ELSE IF last = <<>>
             THEN IF segments # <<>> THEN segments[Len(segments)]
                  ELSE UNKNOWN_TARGET_DIR
        ELSE last

\* line 169: download_root is the --year argument
download_root == <<"1", "1", "4">>

\* os.path.join(a, b)
join(a, b) ==
    IF b # <<>> /\ Head(b) = "/" THEN b
    ELSE IF a = <<>> \/ endswith(a, "/") THEN a \o b
    ELSE a \o <<"/">> \o b

\* lines 88-104: the directory a link is mirrored into
local_mirror_destination_path(ftps_url) ==
    join(download_root, local_target_dir_name(urlparse_path(url_text(ftps_url))))

(***************************************************************************)
(* State.                                                                  *)
(***************************************************************************)
VARIABLES
    ftps_links,          \* line 178: the list get_ftps_links returned
    pc,                  \* where the main thread is
    i,                   \* position of the running "for link in ftps_links"
    count_futures,       \* phase 1: the submitted tasks, in submission order
    count_joined,        \* phase 1: the futures as_completed has handed out
    remote_counts_data,  \* line 184: {ftps_url: remote_dir_count}
    mirror_futures,      \* phase 2: the submitted tasks, in submission order
    mirror_joined,       \* phase 2: the futures as_completed has handed out
    successful_mirrors,  \* line 210
    failed_mirrors,      \* line 211
    timeout_mirrors,     \* line 212
    log,                 \* the warnings of lines 180 and 221
    summary              \* the lines of the summary, lines 248-252

vars == <<ftps_links, pc, i, count_futures, count_joined, remote_counts_data,
          mirror_futures, mirror_joined, successful_mirrors, failed_mirrors,
          timeout_mirrors, log, summary>>

phase1_vars == <<count_futures, count_joined, remote_counts_data>>
phase2_vars == <<mirror_futures, mirror_joined, successful_mirrors,
                 failed_mirrors, timeout_mirrors>>

\* the lists of links the page may give
LinkLists == UNION {[1..n -> Locators] : n \in 0..MaxLinks}

\* the state at line 178, get_ftps_links having returned
Init ==
    /\ ftps_links \in LinkLists
    /\ pc = "Start"
    /\ i = 1
    /\ count_futures = <<>>
    /\ count_joined = {}
    /\ remote_counts_data = <<>>
    /\ mirror_futures = <<>>
    /\ mirror_joined = {}
    /\ successful_mirrors = 0
    /\ failed_mirrors = 0
    /\ timeout_mirrors = 0
    /\ log = {}
    /\ summary = {}

(***************************************************************************)
(* ThreadPoolExecutor: submitted tasks wait in a FIFO queue; a task is     *)
(* taken by a worker thread, and the pool has at most MAX_WORKERS threads. *)
(***************************************************************************)
Running(futures) == {k \in 1..Len(futures) : futures[k].state = "RUNNING"}
Pending(futures) == {k \in 1..Len(futures) : futures[k].state = "PENDING"}
Finished(futures) == {k \in 1..Len(futures) : futures[k].state = "FINISHED"}

\* (mutant: a thread that has run a task takes no other one)
CanTakeOnce(futures, k) ==
    /\ k \in Pending(futures)
    /\ \A j \in Pending(futures) : k <= j
    /\ Cardinality(Running(futures) \cup Finished(futures)) < MAX_WORKERS

\* (mutant: the pool starts a thread for every task)
CanTakeUnbounded(futures, k) ==
    /\ k \in Pending(futures)
    /\ \A j \in Pending(futures) : k <= j

\* a worker thread is free (or can still be created) and the queue is not
\* empty: the task at the head of the queue is the one taken
CanTake(futures, k) ==
    /\ k \in Pending(futures)
    /\ \A j \in Pending(futures) : k <= j
    /\ Cardinality(Running(futures)) < MAX_WORKERS

\* dict.get(key, default)
get(d, key, default) == IF key \in DOMAIN d THEN d[key] ELSE default

\* (mutant: the dict is replaced by one that holds the new entry only)
setitemAlone(d, key, value) == [x \in {key} |-> value]

\* d[key] = value
setitem(d, key, value) ==
    [x \in DOMAIN d \cup {key} |-> IF x = key THEN value ELSE d[x]]

(***************************************************************************)
(* Main thread, lines 178-181.                                             *)
(***************************************************************************)
\* (mutant: the test of line 179 is missing)
NoLinksNever == FALSE

\* line 179: "not ftps_links"
NoLinks == ftps_links = <<>>

\* lines 179-181: no link, the program warns and exits
ExitNoLinks ==
    /\ pc = "Start"
    /\ NoLinks
    /\ log' = log \cup {<<"No FTPS links found. Exiting.", 0>>}
    /\ pc' = "Exited"
    /\ UNCHANGED <<ftps_links, i, phase1_vars, phase2_vars, summary>>

\* lines 183-189: phase 1 begins
BeginPhase1 ==
    /\ pc = "Start"
    /\ ~NoLinks
    /\ pc' = "Phase1Submit"
    /\ i' = 1
    /\ remote_counts_data' = <<>>
    /\ UNCHANGED <<ftps_links, count_futures, count_joined, phase2_vars,
                   log, summary>>

(***************************************************************************)
(* Phase 1, lines 188-203.                                                 *)
(***************************************************************************)
\* lines 190-193: one task per element of the list
Phase1Submit ==
    /\ pc = "Phase1Submit"
    /\ i <= Len(ftps_links)
    /\ count_futures' = Append(count_futures,
                               [link |-> ftps_links[i], state |-> "PENDING"])
    /\ i' = i + 1
    /\ pc' = IF i = Len(ftps_links) THEN "Phase1Join" ELSE pc
    /\ UNCHANGED <<ftps_links, count_joined, remote_counts_data, phase2_vars,
                   log, summary>>

\* a CountWorker thread takes the next task: get_remote_directory_count
\* starts (lines 53-61)
CountWorkerStart ==
    /\ \E k \in 1..Len(count_futures) :
          /\ CanTake(count_futures, k)
          /\ count_futures' =
                [count_futures EXCEPT ![k].state = "RUNNING"]
    /\ UNCHANGED <<ftps_links, pc, i, count_joined, remote_counts_data,
                   phase2_vars, log, summary>>

\* the future of task k gets the value the function returned (listed: the
\* listing command ended with status zero)
CountReturns(k, proc, value) ==
    /\ k \in Running(count_futures)
    /\ count_futures' =
          [count_futures EXCEPT ![k] =
              [link |-> @.link, state |-> "FINISHED", listed |-> proc = "zero",
               result |-> value]]
    /\ UNCHANGED <<ftps_links, pc, i, count_joined, remote_counts_data,
                   phase2_vars, log, summary>>

\* lines 62-75: the listing ended with status zero; its output is parsed
CountListed ==
    \E k \in 1..Len(count_futures) : \E stdout \in ListingOutputs :
        CountReturns(k, "zero", remote_dir_count(stdout))

\* (mutant: the handler returns the length of an empty listing)
CountCalledProcessErrorZero ==
    \E k \in 1..Len(count_futures) : CountReturns(k, "nonzero", 0)

\* lines 76-78: the listing ended with a non-zero status
CountCalledProcessError ==
    \E k \in 1..Len(count_futures) : CountReturns(k, "nonzero", UNKNOWN)

\* lines 79-81: the listing did not end within 120 s
CountTimeoutExpired ==
    \E k \in 1..Len(count_futures) : CountReturns(k, "timeout", UNKNOWN)

\* lines 82-84: subprocess.run raised anything else.  With the three
\* handlers the function raises nothing, so the handler of lines 200-202,
\* which stores -1 for a future that raised, has nothing to catch.
CountException ==
    \E k \in 1..Len(count_futures) : CountReturns(k, "exception", UNKNOWN)

\* lines 195-202: as_completed hands out a finished future; its result is
\* stored under its link.  Nothing reads the future again: the model keeps
\* of it that it has finished.
Phase1Result ==
    /\ pc = "Phase1Join"
    /\ \E k \in Finished(count_futures) \ count_joined :
          /\ count_joined' = count_joined \cup {k}
          /\ remote_counts_data' =
                setitem(remote_counts_data, count_futures[k].link,
                        count_futures[k].result)
          /\ count_futures' =
                [count_futures EXCEPT ![k] =
                    [link |-> @.link, state |-> "FINISHED"]]
    /\ UNCHANGED <<ftps_links, pc, i, phase2_vars, log, summary>>

\* (mutant: the loop over as_completed is left after the first future)
Phase1JoinedFirst == count_joined # {}

\* as_completed has handed out every future of future_to_url_count
Phase1Joined == count_joined = 1..Len(count_futures)

\* the end of a "with ThreadPoolExecutor" block: shutdown(wait=True) returns
\* when every submitted task has finished
ShutdownWaited(futures) == Finished(futures) = 1..Len(futures)

\* lines 203-216: the loop over as_completed and the with block end; the
\* counters are set to zero and phase 2 begins
Phase1Exit ==
    /\ pc = "Phase1Join"
    /\ Phase1Joined
    /\ ShutdownWaited(count_futures)
    /\ pc' = "Phase2Dispatch"
    /\ i' = 1
    /\ successful_mirrors' = 0
    /\ failed_mirrors' = 0
    /\ timeout_mirrors' = 0
    /\ UNCHANGED <<ftps_links, phase1_vars, mirror_futures, mirror_joined,
                   log, summary>>

(***************************************************************************)
(* Phase 2, main thread: lines 216-244.                                    *)
(***************************************************************************)
\* line 219: the count fetched in phase 1 for a link
expected_count(link) == get(remote_counts_data, link, UNKNOWN)

\* (mutant: a link is also skipped when a link with the same target
\* directory has been submitted)
SkipsLinkTargetTaken(link) ==
    \/ expected_count(link) = UNKNOWN
    \/ \E m \in 1..Len(mirror_futures) :
          /\ mirror_futures[m].link # link
          /\ local_mirror_destination_path(mirror_futures[m].link)
                = local_mirror_destination_path(link)

\* (mutant: the test of line 220 compares with 0 instead of -1)
SkipsLinkZero(link) == expected_count(link) = 0

\* line 220: the links that are not mirrored
SkipsLink(link) == expected_count(link) = UNKNOWN

\* (mutant: the "failed_mirrors += 1" of line 223 is not commented out)
Phase2SkipCountsFailed ==
    /\ pc = "Phase2Dispatch"
    /\ i <= Len(ftps_links)
    /\ SkipsLink(ftps_links[i])
    /\ log' = log \cup {<<"Phase 2: Skipping mirror", i>>}
    /\ failed_mirrors' = failed_mirrors + 1
    /\ i' = i + 1
    /\ pc' = IF i = Len(ftps_links) THEN "Phase2Join" ELSE pc
    /\ UNCHANGED <<ftps_links, phase1_vars, mirror_futures, mirror_joined,
                   successful_mirrors, timeout_mirrors, summary>>

\* lines 218-224: the count of the link is unknown, the link is skipped with
\* a warning and nothing is submitted
Phase2Skip ==
    /\ pc = "Phase2Dispatch"
    /\ i <= Len(ftps_links)
    /\ SkipsLink(ftps_links[i])
    /\ log' = log \cup {<<"Phase 2: Skipping mirror", i>>}
    /\ i' = i + 1
    /\ pc' = IF i = Len(ftps_links) THEN "Phase2Join" ELSE pc
    /\ UNCHANGED <<ftps_links, phase1_vars, phase2_vars, summary>>

\* lines 218-227: the count is known, mirror_and_verify_link is submitted
\* with it (pos: the position of the link in ftps_links)
Phase2Submit ==
    /\ pc = "Phase2Dispatch"
    /\ i <= Len(ftps_links)
    /\ ~SkipsLink(ftps_links[i])
    /\ mirror_futures' =
          Append(mirror_futures,
                 [link |-> ftps_links[i], pos |-> i,
                  expected_remote_dir_count |-> expected_count(ftps_links[i]),
                  state |-> "PENDING"])
    /\ i' = i + 1
    /\ pc' = IF i = Len(ftps_links) THEN "Phase2Join" ELSE pc
    /\ UNCHANGED <<ftps_links, phase1_vars, mirror_joined, successful_mirrors,
                   failed_mirrors, timeout_mirrors, log, summary>>

\* (mutant: a timeout is not counted as a failure)
FoldStatusTimeoutOnly(status, counters) ==
    IF status = "Success"
    THEN [counters EXCEPT !.successful = @ + 1]
    ELSE IF status = "Timeout"
         THEN [counters EXCEPT !.timeout = @ + 1]
         ELSE [counters EXCEPT !.failed = @ + 1]

\* lines 234-241: the counters after an outcome of the given status
FoldStatus(status, counters) ==
    IF status = "Success"
    THEN [counters EXCEPT !.successful = @ + 1]
    ELSE IF status = "Timeout"
         THEN [counters EXCEPT !.timeout = @ + 1, !.failed = @ + 1]
         ELSE [counters EXCEPT !.failed = @ + 1]

\* (mutant: the handler of lines 242-244 only logs)
FoldFutureRaisedLost(future, counters) ==
    IF future.raised
    THEN counters
    ELSE FoldStatus(future.result.status, counters)

\* lines 231-244: the counters after a finished future: future.result()
\* gives the outcome, or raises what the task raised
FoldFuture(future, counters) ==
    IF future.raised
    THEN [counters EXCEPT !.failed = @ + 1]
    ELSE FoldStatus(future.result.status, counters)

\* lines 229-244: as_completed hands out a finished future and the counters
\* are updated.  The outcome is unpacked into the locals of line 232, of
\* which only status is read, and nothing reads the future again: the model
\* keeps of it that it has finished, and the status it returned or that it
\* raised.
Phase2Result ==
    /\ pc = "Phase2Join"
    /\ \E k \in Finished(mirror_futures) \ mirror_joined :
          LET counters == FoldFuture(mirror_futures[k],
                              [successful |-> successful_mirrors,
                               failed |-> failed_mirrors,
                               timeout |-> timeout_mirrors])
          IN  /\ mirror_joined' = mirror_joined \cup {k}
              /\ mirror_futures' =
                    [mirror_futures EXCEPT ![k] =
                        [link |-> @.link, pos |-> @.pos,
                         expected_remote_dir_count |->
                             @.expected_remote_dir_count,
                         state |-> "FINISHED", raised |-> @.raised,
                         status |-> IF @.raised THEN "raised"
                                    ELSE @.result.status]]
              /\ successful_mirrors' = counters.successful
              /\ failed_mirrors' = counters.failed
              /\ timeout_mirrors' = counters.timeout
    /\ UNCHANGED <<ftps_links, pc, i, phase1_vars, log, summary>>

\* as_completed has handed out every future of future_to_url_mirror
Phase2Joined == mirror_joined = 1..Len(mirror_futures)

\* lines 244-246: the loop over as_completed and the with block end
Phase2Exit ==
    /\ pc = "Phase2Join"
    /\ Phase2Joined
    /\ ShutdownWaited(mirror_futures)
    /\ pc' = "Summary"
    /\ UNCHANGED <<ftps_links, i, phase1_vars, phase2_vars, log, summary>>

\* (mutant: the total is the number of mirrored links)
SummaryLinesMirrored ==
    {<<"Total links processed", Len(mirror_futures)>>,
     <<"Successful mirrors", successful_mirrors>>,
     <<"Failed mirrors", failed_mirrors>>}
    \cup (IF timeout_mirrors > 0
          THEN {<<"Mirrors that timed out", timeout_mirrors>>}
          ELSE {})

\* lines 247-253: the lines of the summary; the line of the timeouts is
\* written only when there was one
SummaryLines ==
    {<<"Total links processed", Len(ftps_links)>>,
     <<"Successful mirrors", successful_mirrors>>,
     <<"Failed mirrors", failed_mirrors>>}
    \cup (IF timeout_mirrors > 0
          THEN {<<"Mirrors that timed out", timeout_mirrors>>}
          ELSE {})

\* lines 246-253
Summarize ==
    /\ pc = "Summary"
    /\ summary' = SummaryLines
    /\ pc' = "End"
    /\ UNCHANGED <<ftps_links, i, phase1_vars, phase2_vars, log>>

(***************************************************************************)
(* mirror_and_verify_link, lines 87-160, run by a MirrorWorker thread.     *)
(* A running task is at "makedirs" (lines 88-105), at "run" (the           *)
(* subprocess of lines 117-125) or at "walk" (lines 126-144).              *)
(***************************************************************************)
mirror_vars_unchanged ==
    UNCHANGED <<ftps_links, pc, i, phase1_vars, mirror_joined,
                successful_mirrors, failed_mirrors, timeout_mirrors, log,
                summary>>

\* a MirrorWorker thread takes the next task: mirror_and_verify_link starts
MirrorWorkerStart ==
    /\ \E k \in 1..Len(mirror_futures) :
          /\ CanTake(mirror_futures, k)
          /\ mirror_futures' =
                [mirror_futures EXCEPT ![k] =
                    [link |-> @.link, pos |-> @.pos,
                     expected_remote_dir_count |-> @.expected_remote_dir_count,
                     state |-> "RUNNING", at |-> "makedirs"]]
    /\ mirror_vars_unchanged

At(k, where) ==
    /\ k \in Running(mirror_futures)
    /\ mirror_futures[k].at = where

\* lines 88-115: the target directory is there; the locals of lines 113-115
MirrorMakedirs ==
    /\ \E k \in 1..Len(mirror_futures) :
          /\ At(k, "makedirs")
          /\ mirror_futures' =
                [mirror_futures EXCEPT ![k] =
                    [link |-> @.link, pos |-> @.pos,
                     expected_remote_dir_count |-> @.expected_remote_dir_count,
                     state |-> "RUNNING", at |-> "run",
                     mirror_operation_status |-> "Unknown",
                     lftp_mirror_output |-> <<>>,
                     local_dir_count |-> 0]]
    /\ mirror_vars_unchanged

\* line 105 is outside the try: an OSError of os.makedirs (the path is a
\* file, no permission, no space) leaves the function; the future holds it
MirrorMakedirsRaises ==
    /\ \E k \in 1..Len(mirror_futures) :
          /\ At(k, "makedirs")
          /\ mirror_futures' =
                [mirror_futures EXCEPT ![k] =
                    [link |-> @.link, pos |-> @.pos,
                     expected_remote_dir_count |-> @.expected_remote_dir_count,
                     state |-> "FINISHED", proc |-> "none", raised |-> TRUE]]
    /\ mirror_vars_unchanged

\* (mutant: the local count is returned in the place of the expected one)
OutcomeLocalTwice(f, status, output, local) ==
    [ftps_url |-> f.link, status |-> status, lftp_out |-> output,
     remote_c |-> local, local_c |-> local]

\* lines 144 and 160: the tuple the function returns
Outcome(f, status, output, local) ==
    [ftps_url |-> f.link, status |-> status, lftp_out |-> output,
     remote_c |-> f.expected_remote_dir_count, local_c |-> local]

\* the function returns: the future holds the tuple
MirrorReturns(k, proc, status, output, local) ==
    mirror_futures' =
        [mirror_futures EXCEPT ![k] =
            [link |-> @.link, pos |-> @.pos,
             expected_remote_dir_count |-> @.expected_remote_dir_count,
             state |-> "FINISHED", proc |-> proc, raised |-> FALSE,
             result |-> Outcome(@, status, output, local)]]

\* lines 118-128: the mirror ended with status zero
MirrorRunSuccess ==
    /\ \E k \in 1..Len(mirror_futures) : \E stdout \in MirrorStdouts :
          /\ At(k, "run")
          /\ mirror_futures' =
                [mirror_futures EXCEPT
                    ![k].at = "walk",
                    ![k].mirror_operation_status = "Success",
                    ![k].lftp_mirror_output = strip(stdout)]
    /\ mirror_vars_unchanged

\* (mutant: a mismatch of the counts makes the mirror fail)
StatusAfterVerifyStrict(status, expected, local) ==
    IF expected # UNKNOWN /\ local # expected THEN "Failed" ELSE status

\* lines 136-142: the status after the comparison of the two counts, which
\* only chooses the message logged
StatusAfterVerify(status, expected, local) == status

\* lines 130-144: os.walk gives the sub-directories of the target (none when
\* the directory cannot be read: os.walk ignores the error); the counts are
\* compared and the outcome is returned
MirrorWalk ==
    /\ \E k \in 1..Len(mirror_futures) : \E dirs \in LocalDirs :
          /\ At(k, "walk")
          /\ LET local_dir_count == Cardinality(dirs)
             IN  MirrorReturns(k, "zero",
                     StatusAfterVerify(
                         mirror_futures[k].mirror_operation_status,
                         mirror_futures[k].expected_remote_dir_count,
                         local_dir_count),
                     mirror_futures[k].lftp_mirror_output, local_dir_count)
    /\ mirror_vars_unchanged

\* (mutant: line 148 is missing, the status stays as initialised)
CalledProcessErrorOutcomeNoStatus(f, stderr) ==
    [ftps_url |-> f.link, status |-> f.mirror_operation_status,
     lftp_out |-> strip(stderr), remote_c |-> f.expected_remote_dir_count,
     local_c |-> f.local_dir_count]

\* lines 146-149 and 160: the mirror ended with a non-zero status
CalledProcessErrorOutcome(f, stderr) ==
    Outcome(f, "Failed", strip(stderr), f.local_dir_count)

MirrorCalledProcessError ==
    /\ \E k \in 1..Len(mirror_futures) : \E stderr \in ToolTexts :
          /\ At(k, "run")
          /\ LET o == CalledProcessErrorOutcome(mirror_futures[k], stderr)
             IN  MirrorReturns(k, "nonzero", o.status, o.lftp_out, o.local_c)
    /\ mirror_vars_unchanged

\* lines 150-153 and 160: the mirror did not end within the timeout;
\* e.stderr is None or what was captured
TimeoutExpiredOutcome(f, stderr) ==
    Outcome(f, "Timeout",
            IF stderr # None /\ stderr # <<>> THEN strip(stderr)
            ELSE NoStderrText,
            f.local_dir_count)

MirrorTimeoutExpired ==
    /\ \E k \in 1..Len(mirror_futures) : \E stderr \in ToolTexts \cup {None} :
          /\ At(k, "run")
          /\ LET o == TimeoutExpiredOutcome(mirror_futures[k], stderr)
             IN  MirrorReturns(k, "timeout", o.status, o.lftp_out, o.local_c)
    /\ mirror_vars_unchanged

\* lines 154-157 and 160: subprocess.run raised anything else
MirrorException ==
    /\ \E k \in 1..Len(mirror_futures) : \E e \in ExceptionTexts :
          /\ At(k, "run")
          /\ MirrorReturns(k, "exception", "Error", e,
                           mirror_futures[k].local_dir_count)
    /\ mirror_vars_unchanged

(***************************************************************************)
(* The program.                                                            *)
(***************************************************************************)
CountWorker ==
    \/ CountWorkerStart
    \/ CountListed
    \/ CountCalledProcessError
    \/ CountTimeoutExpired
    \/ CountException

MirrorWorker ==
    \/ MirrorWorkerStart
    \/ MirrorMakedirs
    \/ MirrorMakedirsRaises
    \/ MirrorRunSuccess
    \/ MirrorWalk
    \/ MirrorCalledProcessError
    \/ MirrorTimeoutExpired
    \/ MirrorException

Main ==
    \/ ExitNoLinks
    \/ BeginPhase1
    \/ Phase1Submit
    \/ Phase1Result
    \/ Phase1Exit
    \/ Phase2Skip
    \/ Phase2Submit
    \/ Phase2Result
    \/ Phase2Exit
    \/ Summarize

Next == Main \/ CountWorker \/ MirrorWorker

Spec == Init /\ [][Next]_vars

(***************************************************************************)
(* A run with more links than a pool has threads: the page gives           *)
(* MAX_WORKERS + 1 links, every listing prints one directory and no        *)
(* target directory can be created.                                        *)
(***************************************************************************)
PoolLinks ==
    [k \in 1..(MAX_WORKERS + 1) |->
        IF k % 2 = 1 THEN "ftps://h/a/x" ELSE "ftps://h/b/x"]

InitPool ==
    /\ ftps_links = PoolLinks
    /\ pc = "Start"
    /\ i = 1
    /\ count_futures = <<>>
    /\ count_joined = {}
    /\ remote_counts_data = <<>>
    /\ mirror_futures = <<>>
    /\ mirror_joined = {}
    /\ successful_mirrors = 0
    /\ failed_mirrors = 0
    /\ timeout_mirrors = 0
    /\ log = {}
    /\ summary = {}

\* lines 62-75: the listing ended with status zero and printed "d/"
PoolCountListed ==
    \E k \in 1..Len(count_futures) :
        CountReturns(k, "zero", remote_dir_count(<<"d", "/">>))

NextPool ==
    \/ BeginPhase1
    \/ Phase1Submit
    \/ Phase1Result
    \/ Phase1Exit
    \/ Phase2Submit
    \/ Phase2Result
    \/ Phase2Exit
    \/ Summarize
    \/ CountWorkerStart
    \/ PoolCountListed
    \/ MirrorWorkerStart
    \/ MirrorMakedirsRaises

PoolSpec == InitPool /\ [][NextPool]_vars

(***************************************************************************)
(* mirror_and_verify_link from line 93 on, for any remote path: the name   *)
(* of the local target directory is derived from it.                       *)
(***************************************************************************)
PathChars == {"/", "a", "b"}

Paths == UNION {[1..n -> PathChars] : n \in 0..MaxPathLen}

InitName ==
    /\ \E remote_path \in Paths :
          mirror_futures =
             <<[state |-> "RUNNING", at |-> "name",
                remote_path |-> remote_path]>>
    /\ ftps_links = <<>>
    /\ pc = "Call"
    /\ i = 1
    /\ count_futures = <<>>
    /\ count_joined = {}
    /\ remote_counts_data = <<>>
    /\ mirror_joined = {}
    /\ successful_mirrors = 0
    /\ failed_mirrors = 0
    /\ timeout_mirrors = 0
    /\ log = {}
    /\ summary = {}

\* lines 93-101
MirrorTargetName ==
    /\ \E k \in 1..Len(mirror_futures) :
          /\ At(k, "name")
          /\ mirror_futures' =
                [mirror_futures EXCEPT ![k] =
                    [state |-> "RUNNING", at |-> "makedirs",
                     remote_path |-> @.remote_path,
                     local_target_dir_name |->
                        local_target_dir_name(@.remote_path)]]
    /\ mirror_vars_unchanged

NameSpec == InitName /\ [][MirrorTargetName]_vars

(***************************************************************************)
(* Any run: a list of at most MaxLinks links with every outcome of every   *)
(* call, or the list of MAX_WORKERS + 1 links.  Every call ends within its *)
(* timeout and every thread gets to run: a step that can be taken is       *)
(* taken.                                                                  *)
(***************************************************************************)
InitAny == Init \/ InitPool

NextAny ==
    \/ ftps_links # PoolLinks /\ Next
    \/ ftps_links = PoolLinks /\ NextPool

FairAnySpec == InitAny /\ [][NextAny]_vars /\ WF_vars(NextAny)

(***************************************************************************)
(* mirror_and_verify_link called directly: two concurrent calls with any   *)
(* link and any expected count, the unknown one included.                  *)
(***************************************************************************)
ExpectedCounts == {UNKNOWN} \cup 0..MaxExpected

Call(link, expected) ==
    [link |-> link, pos |-> 0, expected_remote_dir_count |-> expected,
     state |-> "PENDING"]

InitCall ==
    /\ \E l1 \in Locators, l2 \in Locators :
       \E e1 \in ExpectedCounts, e2 \in ExpectedCounts :
          mirror_futures = <<Call(l1, e1), Call(l2, e2)>>
    /\ ftps_links = <<>>
    /\ pc = "Call"
    /\ i = 1
    /\ count_futures = <<>>
    /\ count_joined = {}
    /\ remote_counts_data = <<>>
    /\ mirror_joined = {}
    /\ successful_mirrors = 0
    /\ failed_mirrors = 0
    /\ timeout_mirrors = 0
    /\ log = {}
    /\ summary = {}

CallSpec == InitCall /\ [][MirrorWorker]_vars

\* Every thread that can run gets to run, and every subprocess ends or is
\* stopped by its timeout (lines 67 and 124): a step that can be taken is
\* taken.
FairSpec == Spec /\ WF_vars(Next)

(***************************************************************************)
(* Properties.                                                             *)
(***************************************************************************)
Phase2States == {"Phase2Dispatch", "Phase2Join", "Summary", "End"}

\* the positions of ftps_links whose link has no known count
UnknownPositions ==
    {p \in 1..Len(ftps_links) : expected_count(ftps_links[p]) = UNKNOWN}

\* the mirror tasks submitted for a link
MirrorsOf(link) ==
    {m \in 1..Len(mirror_futures) : mirror_futures[m].link = link}

\* mirror task m has returned and its outcome is still held by its future
Returned(m) ==
    /\ mirror_futures[m].state = "FINISHED"
    /\ m \notin mirror_joined
    /\ ~mirror_futures[m].raised

\* count task k has returned and its result is still held by its future
Counted(k) ==
    /\ count_futures[k].state = "FINISHED"
    /\ k \notin count_joined

\* C1: whenever a call of mirror_and_verify_link has started, every link of
\* the list has its counting task submitted and finished, and the result of
\* every counting task has been stored in remote_counts_data.
C1_PhaseBarrier ==
    (\E m \in 1..Len(mirror_futures) : mirror_futures[m].state # "PENDING")
    => /\ Len(count_futures) = Len(ftps_links)
       /\ \A k \in 1..Len(count_futures) :
             /\ count_futures[k].state = "FINISHED"
             /\ k \in count_joined
             /\ count_futures[k].link \in DOMAIN remote_counts_data

\* C1 witness: a mirror call runs while the main thread is still
\* dispatching the second link of a list of two.
C1_Witness ==
    /\ pc = "Phase2Dispatch"
    /\ Len(count_futures) = 2
    /\ \E m \in 1..Len(mirror_futures) : mirror_futures[m].state = "RUNNING"

\* C2: in phase 2, no mirror task is ever submitted for a link whose count
\* in remote_counts_data is -1, and once the dispatch loop has passed a
\* position holding such a link, the warning that it is skipped (the
\* program's record of a skipped link) has been logged for that position.
C2_UnknownIsSkipped ==
    pc \in Phase2States =>
        \A p \in UnknownPositions :
            /\ MirrorsOf(ftps_links[p]) = {}
            /\ (pc # "Phase2Dispatch" \/ p < i)
               => <<"Phase 2: Skipping mirror", p>> \in log

\* C2 witness: the run has ended, one link was skipped and another mirrored.
C2_Witness ==
    /\ pc = "End"
    /\ UnknownPositions # {}
    /\ mirror_futures # <<>>

\* C3 (as claimed): at the end of the run every link with a known count has
\* exactly one mirror task, and that task returned an outcome.
C3_OneOutcomePerLocator ==
    pc = "End" =>
        \A p \in 1..Len(ftps_links) :
            p \notin UnknownPositions =>
                /\ Cardinality(MirrorsOf(ftps_links[p])) = 1
                /\ \A m \in MirrorsOf(ftps_links[p]) :
                      ~mirror_futures[m].raised

\* C4 (as claimed): a call of mirror_and_verify_link that has finished has
\* returned an outcome, it has not raised.
C4_MirrorNeverRaises ==
    \A m \in 1..Len(mirror_futures) :
        mirror_futures[m].state = "FINISHED" => ~mirror_futures[m].raised

\* the labels of the lines of the summary
SummaryLabels ==
    {"Total links processed", "Successful mirrors", "Failed mirrors",
     "Mirrors that timed out"}

\* the mirror tasks that ended with one of the given statuses
WithStatus(statuses) ==
    {m \in 1..Len(mirror_futures) : mirror_futures[m].status \in statuses}

\* C5 (as claimed): the summary of a run that has ended holds a line with
\* the number of skipped links.
C5_SummaryReportsSkipped ==
    pc = "End" =>
        \E line \in summary :
            /\ line[1] \notin SummaryLabels
            /\ line[2] = Cardinality(UnknownPositions)

\* C5 (amended): the summary of a run that has ended reports the length of
\* the list of links, the number of mirror tasks that returned Success, the
\* number of all other mirror tasks and, when it is not zero, the number of
\* those that returned Timeout; it has no other line, and none for the
\* skipped links, which are the links counted in the total and in neither
\* of the other two.
C5_SummaryWithoutSkipped ==
    pc = "End" =>
        /\ summary =
              {<<"Total links processed", Len(ftps_links)>>,
               <<"Successful mirrors", Cardinality(WithStatus({"Success"}))>>,
               <<"Failed mirrors",
                 Cardinality(WithStatus({"Failed", "Timeout", "Error",
                                         "raised"}))>>}
              \cup {<<"Mirrors that timed out", n>> :
                       n \in {Cardinality(WithStatus({"Timeout"}))} \ {0}}
        /\ Cardinality(UnknownPositions) =
              Len(ftps_links) - successful_mirrors - failed_mirrors

\* C5 witness: a list of two links has been processed, one mirrored and the
\* other skipped, and the summary is out.
C5_Witness ==
    /\ pc = "End"
    /\ Len(ftps_links) = 2
    /\ Cardinality(UnknownPositions) = 1
    /\ Len(mirror_futures) = 1

\* C6 (as claimed): a run on an empty list that has left Start has ended
\* with a summary whose counters are all zero.
C6_EmptyRunSummarized ==
    (ftps_links = <<>> /\ pc # "Start") =>
        /\ pc = "End"
        /\ \A line \in summary : line[2] = 0
        /\ {line[1] : line \in summary} \cap SummaryLabels # {}

\* C6 (amended): a run on an empty list goes from Start to the exit of line
\* 181 with the warning of line 180: no counting or mirroring task is
\* submitted and no summary is written.
C6_EmptyRunExits ==
    ftps_links = <<>> =>
        /\ pc \in {"Start", "Exited"}
        /\ pc = "Exited" <=> <<"No FTPS links found. Exiting.", 0>> \in log
        /\ count_futures = <<>>
        /\ mirror_futures = <<>>
        /\ summary = {}

\* C6 witness: the run on the empty list has exited.
C6_Witness ==
    /\ ftps_links = <<>>
    /\ pc = "Exited"

\* C7: a call whose mirror command ended with status zero returns the
\* status Success, whatever the expected count and the local count.
C7_ZeroExitIsSuccess ==
    \A m \in 1..Len(mirror_futures) :
        (Returned(m) /\ mirror_futures[m].proc = "zero")
        => mirror_futures[m].result.status = "Success"

\* C7 witness: two calls whose command ended with status zero have
\* returned, one with the unknown expected count, one with a local count
\* that differs from its known expected count.
C7_Witness ==
    /\ \E m \in 1..Len(mirror_futures) :
          /\ Returned(m)
          /\ mirror_futures[m].proc = "zero"
          /\ mirror_futures[m].result.remote_c = UNKNOWN
    /\ \E m \in 1..Len(mirror_futures) :
          /\ Returned(m)
          /\ mirror_futures[m].proc = "zero"
          /\ mirror_futures[m].result.remote_c # UNKNOWN
          /\ mirror_futures[m].result.local_c
                # mirror_futures[m].result.remote_c

\* mirror task m, dispatched by the main thread, has returned after its
\* mirror command ended with a non-zero status
FailedMirror(m) ==
    /\ Returned(m)
    /\ mirror_futures[m].proc = "nonzero"

\* C8 (as claimed): the outcome of a mirror task whose command ended with a
\* non-zero status has the status Failed, the expected count the task was
\* dispatched with, the local count 0 and a text that is not empty.
C8_FailedHasErrorText ==
    \A m \in 1..Len(mirror_futures) :
        FailedMirror(m) =>
            /\ mirror_futures[m].result.status = "Failed"
            /\ mirror_futures[m].result.remote_c
                  = remote_counts_data[mirror_futures[m].link]
            /\ mirror_futures[m].result.local_c = 0
            /\ mirror_futures[m].result.lftp_out # <<>>

\* C8 (amended): the outcome of a mirror task whose command ended with a
\* non-zero status has the status Failed, the expected count the task was
\* dispatched with, the local count 0 and, as text, what the command wrote
\* to stderr without the white space around it, which is empty when the
\* command wrote nothing else.
C8_FailedHasStrippedStderr ==
    \A m \in 1..Len(mirror_futures) :
        FailedMirror(m) =>
            /\ mirror_futures[m].result.status = "Failed"
            /\ mirror_futures[m].result.remote_c
                  = remote_counts_data[mirror_futures[m].link]
            /\ mirror_futures[m].result.local_c = 0
            /\ \E stderr \in ToolTexts :
                  /\ mirror_futures[m].result.lftp_out = strip(stderr)
                  /\ mirror_futures[m].result.lftp_out = <<>>
                     <=> \A c \in 1..Len(stderr) : stderr[c] \in Whitespace

\* C8 witness: a task dispatched with the expected count 1 has returned
\* Failed with the text of the command.
C8_Witness ==
    \E m \in 1..Len(mirror_futures) :
        /\ FailedMirror(m)
        /\ mirror_futures[m].result.remote_c = 1
        /\ mirror_futures[m].result.lftp_out = <<"x">>

\* C9: a mirror task whose command was stopped by the timeout returns the
\* status Timeout, and the step of the main thread that takes its outcome
\* adds one to timeout_mirrors and one to failed_mirrors, and nothing to
\* successful_mirrors.
C9_TimeoutCountedTwice ==
    [][\A m \in 1..Len(mirror_futures) :
          (Returned(m) /\ mirror_futures[m].proc = "timeout") =>
              /\ mirror_futures[m].result.status = "Timeout"
              /\ m \in mirror_joined' =>
                    /\ timeout_mirrors' = timeout_mirrors + 1
                    /\ failed_mirrors' = failed_mirrors + 1
                    /\ successful_mirrors' = successful_mirrors]_vars

\* C9 witness: the outcome of a task stopped by the timeout has been taken
\* by the main thread, after a success.
C9_Witness ==
    /\ pc = "Phase2Join"
    /\ mirror_joined = {1, 2}
    /\ mirror_futures[1].status = "Success"
    /\ mirror_futures[2].status = "Timeout"
    /\ timeout_mirrors = 1
    /\ failed_mirrors = 1

\* count task k has returned after a listing that failed
FailedCount(k) ==
    /\ Counted(k)
    /\ ~count_futures[k].listed

\* C10: a counting task whose listing failed returns -1; the main thread
\* is in phase 2 only when every counting task has finished and has its
\* result stored, failed or not; and when a counting task has failed the
\* run reaches phase 2.
C10_CountFailureDoesNotAbort ==
    /\ [](\A k \in 1..Len(count_futures) :
             FailedCount(k) => count_futures[k].result = UNKNOWN)
    /\ [](pc \in Phase2States =>
             /\ Len(count_futures) = Len(ftps_links)
             /\ \A k \in 1..Len(count_futures) :
                   /\ count_futures[k].state = "FINISHED"
                   /\ k \in count_joined
                   /\ count_futures[k].link \in DOMAIN remote_counts_data)
    /\ (\E k \in 1..Len(count_futures) : FailedCount(k))
       ~> (pc \in Phase2States)

\* C10 witness: of two links the count of one failed and is stored as -1,
\* and the other link is being mirrored.
C10_Witness ==
    /\ pc = "Phase2Join"
    /\ Len(ftps_links) = 2
    /\ Cardinality(UnknownPositions) = 1
    /\ \E m \in 1..Len(mirror_futures) : mirror_futures[m].state = "RUNNING"

\* the links of the list
Links == {ftps_links[p] : p \in 1..Len(ftps_links)}

\* C11: once phase 1 is over, remote_counts_data has an entry for every
\* link of the list and for nothing else (one entry for a link, also when
\* the link is in the list twice), and every entry is -1 or a count >= 0.
C11_OneCountPerLocator ==
    pc \in Phase2States =>
        /\ DOMAIN remote_counts_data = Links
        /\ \A link \in Links :
              remote_counts_data[link] = UNKNOWN
              \/ remote_counts_data[link] >= 0

\* C11 witness: phase 1 is over for a list of two different links, one with
\* a failed listing and one with a listing of one directory.
C11_Witness ==
    /\ pc = "Phase2Dispatch"
    /\ Cardinality(Links) = 2
    /\ \E link \in Links : remote_counts_data[link] = UNKNOWN
    /\ \E link \in Links : remote_counts_data[link] = 1

\* C12: in phase 2 remote_counts_data has an entry for every link and no
\* step changes it; every mirror task, from its submission on, has as its
\* expected count the entry of its link, and the outcome it returns holds
\* that same value.
C12_ExpectedCountIsStable ==
    /\ [](pc \in Phase2States =>
             /\ Links \subseteq DOMAIN remote_counts_data
             /\ \A m \in 1..Len(mirror_futures) :
                   /\ mirror_futures[m].expected_remote_dir_count
                         = remote_counts_data[mirror_futures[m].link]
                   /\ Returned(m) =>
                         mirror_futures[m].result.remote_c
                            = remote_counts_data[mirror_futures[m].link])
    /\ [][(pc \in Phase2States) =>
             (remote_counts_data' = remote_counts_data)]_vars

\* C12 witness: a mirror task dispatched with the expected count 1 has
\* returned Success with no local sub-directory, while another is running.
C12_Witness ==
    /\ pc = "Phase2Join"
    /\ \E m \in 1..Len(mirror_futures) :
          /\ Returned(m)
          /\ mirror_futures[m].result.status = "Success"
          /\ mirror_futures[m].result.remote_c = 1
          /\ mirror_futures[m].result.local_c = 0
    /\ \E m \in 1..Len(mirror_futures) : mirror_futures[m].state = "RUNNING"

\* C13: with every call ending and every thread getting to run, a run with
\* a list that is not empty reaches the summary, also with more links than
\* the pool has threads; by then every task submitted in either phase has
\* ended, whatever happened to the others.
C13_ReachesSummary ==
    /\ (ftps_links # <<>>) ~> (pc = "End" /\ summary # {})
    /\ [](pc = "End" =>
             /\ Len(count_futures) = Len(ftps_links)
             /\ Finished(count_futures) = 1..Len(count_futures)
             /\ Finished(mirror_futures) = 1..Len(mirror_futures)
             /\ mirror_joined = 1..Len(mirror_futures))

\* C13 witness: the summary of a run with more links than threads, every
\* mirror of which failed.
C13_Witness ==
    /\ pc = "End"
    /\ Len(ftps_links) > MAX_WORKERS
    /\ Len(mirror_futures) = Len(ftps_links)
    /\ failed_mirrors = Len(ftps_links)

\* C14: at most MAX_WORKERS count tasks are running at a time, at most
\* MAX_WORKERS mirror tasks are running at a time, and never a count task
\* and a mirror task together.
C14_PoolsAreBounded ==
    /\ Cardinality(Running(count_futures)) <= MAX_WORKERS
    /\ Cardinality(Running(mirror_futures)) <= MAX_WORKERS
    /\ Running(count_futures) = {} \/ Running(mirror_futures) = {}

\* C14 witness: MAX_WORKERS mirror tasks are running and one more waits in
\* the queue.
C14_Witness ==
    /\ Cardinality(Running(mirror_futures)) = MAX_WORKERS
    /\ Pending(mirror_futures) # {}

\* C15: the name derived from a remote path is "ftps_root" when the path is
\* "/", "unknown_target_dir" when the path is empty or made of separators
\* only, and otherwise the last segment of the path that is not empty,
\* whether the path ends with a separator or not.
C15_TargetNameOfPath ==
    \A m \in 1..Len(mirror_futures) :
        (mirror_futures[m].state = "RUNNING"
            /\ mirror_futures[m].at = "makedirs"
            /\ "remote_path" \in DOMAIN mirror_futures[m]) =>
        LET path == mirror_futures[m].remote_path
            name == mirror_futures[m].local_target_dir_name
            named == {k \in 1..Len(path) : path[k] # "/"}
        IN  IF path = <<"/">> THEN name = <<"ftps_root">>
            ELSE IF named = {} THEN name = <<"unknown_target_dir">>
            ELSE LET end == CHOOSE k \in named : \A j \in named : j <= k
                     seps == {k \in 1..end : path[k] = "/"}
                     begin == IF seps = {} THEN 0
                              ELSE CHOOSE k \in seps : \A j \in seps : j <= k
                 IN  name = SubSeq(path, begin + 1, end)

\* C15 witness: the name of "/a/b/" has been derived, and is "b".
C15_Witness ==
    \E m \in 1..Len(mirror_futures) :
        /\ mirror_futures[m].at = "makedirs"
        /\ mirror_futures[m].remote_path = <<"/", "a", "/", "b", "/">>
        /\ mirror_futures[m].local_target_dir_name = <<"b">>

\* C16: two different links of the list with known counts and the same
\* local target directory are both submitted for mirroring: once the
\* dispatch loop is over each of the two positions has its mirror task.
C16_CollidingLinksBothDispatched ==
    pc \in {"Phase2Join", "Summary", "End"} =>
        \A p \in 1..Len(ftps_links), q \in 1..Len(ftps_links) :
            (/\ ftps_links[p] # ftps_links[q]
             /\ expected_count(ftps_links[p]) # UNKNOWN
             /\ expected_count(ftps_links[q]) # UNKNOWN
             /\ local_mirror_destination_path(ftps_links[p])
                   = local_mirror_destination_path(ftps_links[q])) =>
            /\ \E m \in 1..Len(mirror_futures) : mirror_futures[m].pos = p
            /\ \E m \in 1..Len(mirror_futures) : mirror_futures[m].pos = q

\* C16 witness: two mirror commands are running at the same time for two
\* different links, in the same local directory.
C16_Witness ==
    \E m \in 1..Len(mirror_futures), n \in 1..Len(mirror_futures) :
        /\ mirror_futures[m].link # mirror_futures[n].link
        /\ At(m, "run")
        /\ At(n, "run")
        /\ local_mirror_destination_path(mirror_futures[m].link)
              = local_mirror_destination_path(mirror_futures[n].link)
        /\ local_mirror_destination_path(mirror_futures[m].link)
              = <<"1", "1", "4", "/", "x">>

\* mirror task m has raised and its future has not been handed out yet
Raised(m) ==
    /\ mirror_futures[m].state = "FINISHED"
    /\ m \notin mirror_joined
    /\ mirror_futures[m].raised

\* C17: when the main thread takes the future of a mirror task that raised,
\* it adds one to failed_mirrors, leaves the other two counters and stays in
\* the join loop; from a task having raised the run goes on to the summary,
\* by which every submitted task has been taken from the join loop and
\* failed_mirrors counts each task that raised or did not succeed once.
C17_RaisedTaskCountedFailed ==
    /\ [][\A m \in 1..Len(mirror_futures) :
             (Raised(m) /\ m \in mirror_joined') =>
                 /\ failed_mirrors' = failed_mirrors + 1
                 /\ successful_mirrors' = successful_mirrors
                 /\ timeout_mirrors' = timeout_mirrors
                 /\ pc' = "Phase2Join"]_vars
    /\ (\E m \in 1..Len(mirror_futures) : Raised(m))
          ~> (pc = "End" /\ summary # {})
    /\ [](pc = "End" =>
             /\ mirror_joined = 1..Len(mirror_futures)
             /\ failed_mirrors =
                   Cardinality(WithStatus({"raised", "Failed", "Timeout",
                                           "Error"}))
             /\ successful_mirrors = Cardinality(WithStatus({"Success"})))

\* C17 witness: the summary of a run of which one mirror task raised and
\* another succeeded.
C17_Witness ==
    /\ pc = "End"
    /\ WithStatus({"raised"}) # {}
    /\ WithStatus({"Success"}) # {}
    /\ failed_mirrors = 1
    /\ successful_mirrors = 1
    /\ <<"Failed mirrors", 1>> \in summary

\* C18: from the end of the join loop on, successful_mirrors plus
\* failed_mirrors is the number of mirror tasks submitted, timeout_mirrors is
\* at most failed_mirrors, and together with the skipped links the two
\* counters add up to the length of the list; the summary prints these
\* counters.
C18_CountersAddUp ==
    pc \in {"Summary", "End"} =>
        /\ successful_mirrors + failed_mirrors = Len(mirror_futures)
        /\ timeout_mirrors <= failed_mirrors
        /\ successful_mirrors + failed_mirrors + Cardinality(UnknownPositions)
              = Len(ftps_links)
        /\ pc = "End" =>
              /\ <<"Total links processed", Len(ftps_links)>> \in summary
              /\ <<"Successful mirrors", successful_mirrors>> \in summary
              /\ <<"Failed mirrors", failed_mirrors>> \in summary

\* C18 witness: the summary of a run with a skipped link and a mirror that
\* timed out.
C18_Witness ==
    /\ pc = "End"
    /\ Len(ftps_links) = 2
    /\ Cardinality(UnknownPositions) = 1
    /\ timeout_mirrors = 1
    /\ failed_mirrors = 1
    /\ successful_mirrors = 0

====
